---- MODULE Spec2Model ----
(***************************************************************************)
(* alog: the line pipeline of src/src/lib.rs (replace_remote_address,      *)
(* write_or_replace, Replace::replace, Replace::bmsearch,                  *)
(* Replace::bad_char_table) as a state machine over byte sequences.        *)
(*                                                                         *)
(* Bytes are the integers 0..255.  Offsets into buffers are 0-based, as in *)
(* the source; At and Slice convert to the 1-based sequences of TLA+.      *)
(***************************************************************************)
EXTENDS Integers, Sequences, FiniteSets, TLC

VARIABLES
    config,     \* the Config value of the run (replacements and flags)
    reader,     \* the bytes the reader has not delivered yet
    writer,     \* the bytes written to the sink so far
    buf,        \* the line buffer of replace_remote_address
    raw,        \* the line as read_until delivered it, before trimming
    mark,       \* Len(writer) when the current line was read
    i,          \* the split point: offset of the first whitespace byte of buf
    needle,     \* the lossily decoded token, as UTF-8 bytes
    repl,       \* the replacement chosen for the line
    pc,         \* position in replace_remote_address
    input,      \* the bytes the reader held when run_raw was called
    pass,       \* 1: the first call of run_raw; 2: the second call
    kind,       \* what the later calls are given ("reapply", "flip", ...)
    first,      \* the sink of the first call, kept for the comparison
    flushed,    \* the number of bytes of the sink that have been flushed
    inputs,     \* IOConfig.input: the inputs pushed, in push order
    arg,        \* the number of inputs run has opened or tried to open
    todo,       \* the inputs still to be run alone, one call each
    returned,   \* what run returned: Ok, or Err and the input it names
    site,       \* the operation that returned an I/O error, if any
    bm          \* the locals of one call of bmsearch

\* the state of run around replace_remote_address
run_state == <<inputs, arg, todo, returned, site>>

vars ==
    <<config, reader, writer, buf, raw, mark, i, needle, repl, pc, input, pass,
      kind, first, flushed, inputs, arg, todo, returned, site, bm>>

(***************************************************************************)
(* Bytes and slices                                                        *)
(***************************************************************************)

\* s[k] with a 0-based offset k
At(s, k) == s[k + 1]

\* s[a..b] with 0-based offsets, b exclusive
Slice(s, a, b) == SubSeq(s, a + 1, b)

\* s[a..]
SliceFrom(s, a) == SubSeq(s, a + 1, Len(s))

\* u8::is_ascii_whitespace: U+0020 SPACE, U+0009 TAB, U+000A LF, U+000C FF, U+000D CR
is_ascii_whitespace(b) == b \in {32, 9, 10, 12, 13}

IsDigit(b) == b \in 48..57

IsHexDigit(b) == b \in (48..57) \cup (65..70) \cup (97..102)

\* the value of one ASCII digit
DigitValue(b) == b - 48

(***************************************************************************)
(* String::from_utf8_lossy: the bytes of the decoded string.  Each valid   *)
(* scalar value is kept, each maximal invalid sequence becomes U+FFFD      *)
(* (EF BF BD).                                                             *)
(***************************************************************************)

\* core::str::utf8_char_width
utf8_char_width(b) ==
    IF b < 128 THEN 1
    ELSE IF b \in 194..223 THEN 2
    ELSE IF b \in 224..239 THEN 3
    ELSE IF b \in 240..244 THEN 4
    ELSE 0

\* safe_get: the byte at 0-based offset k, or 0 past the end
safe_get(s, k) == IF k < Len(s) THEN At(s, k) ELSE 0

IsCont(b) == b \in 128..191

\* the second byte a three-byte sequence led by b admits
Second3(b, c) ==
    \/ b = 224 /\ c \in 160..191
    \/ b \in 225..236 /\ c \in 128..191
    \/ b = 237 /\ c \in 128..159
    \/ b \in 238..239 /\ c \in 128..191

\* the second byte a four-byte sequence led by b admits
Second4(b, c) ==
    \/ b = 240 /\ c \in 144..191
    \/ b \in 241..243 /\ c \in 128..191
    \/ b = 244 /\ c \in 128..143

\* One step of the chunk scanner at offset k: <<valid, n>>, the number n of
\* bytes consumed and whether they form a valid scalar value.
Utf8Step(s, k) ==
    LET b == At(s, k)
        w == utf8_char_width(b)
    IN  CASE w = 1 -> <<TRUE, 1>>
          [] w = 2 -> IF IsCont(safe_get(s, k + 1)) THEN <<TRUE, 2>> ELSE <<FALSE, 1>>
          [] w = 3 -> IF ~Second3(b, safe_get(s, k + 1)) THEN <<FALSE, 1>>
                      ELSE IF ~IsCont(safe_get(s, k + 2)) THEN <<FALSE, 2>>
                      ELSE <<TRUE, 3>>
          [] w = 4 -> IF ~Second4(b, safe_get(s, k + 1)) THEN <<FALSE, 1>>
                      ELSE IF ~IsCont(safe_get(s, k + 2)) THEN <<FALSE, 2>>
                      ELSE IF ~IsCont(safe_get(s, k + 3)) THEN <<FALSE, 3>>
                      ELSE <<TRUE, 4>>
          [] OTHER -> <<FALSE, 1>>

RECURSIVE LossyFrom(_, _)
LossyFrom(s, k) ==
    IF k >= Len(s) THEN <<>>
    ELSE LET st == Utf8Step(s, k)
         IN  (IF st[1] THEN Slice(s, k, k + st[2]) ELSE <<239, 191, 189>>)
             \o LossyFrom(s, k + st[2])

from_utf8_lossy(s) == LossyFrom(s, 0)

(***************************************************************************)
(* str::parse::<Ipv4Addr> and str::parse::<Ipv6Addr>                       *)
(***************************************************************************)

\* the parts of s between occurrences of the byte sep (one part more than
\* there are separators)
RECURSIVE SplitOn(_, _)
SplitOn(s, sep) ==
    IF \A k \in 1..Len(s) : s[k] # sep THEN <<s>>
    ELSE LET p == CHOOSE k \in 1..Len(s) :
                      s[k] = sep /\ \A j \in 1..(k - 1) : s[j] # sep
         IN  <<SubSeq(s, 1, p - 1)>> \o SplitOn(SubSeq(s, p + 1, Len(s)), sep)

RECURSIVE DecimalValue(_)
DecimalValue(p) ==
    IF p = <<>> THEN 0
    ELSE 10 * DecimalValue(SubSeq(p, 1, Len(p) - 1)) + DigitValue(p[Len(p)])

\* read_number(10, Some(3), false) into a u8: one to three digits, no
\* leading zero on a longer number, value at most 255
IsOctet(p) ==
    /\ Len(p) \in 1..3
    /\ \A k \in 1..Len(p) : IsDigit(p[k])
    /\ (Len(p) > 1 => p[1] # 48)
    /\ DecimalValue(p) <= 255

\* the whole of s is four octets separated by '.'
IsIpv4(s) ==
    LET parts == SplitOn(s, 46)
    IN  Len(parts) = 4 /\ \A k \in 1..4 : IsOctet(parts[k])

\* read_number(16, Some(4), true): one to four hex digits
IsGroup16(p) == Len(p) \in 1..4 /\ \A k \in 1..Len(p) : IsHexDigit(p[k])

\* the groups of a colon-separated run; the empty run has no group
GroupList(s) == IF s = <<>> THEN <<>> ELSE SplitOn(s, 58)

\* every group is hexadecimal; with v4 the last one may be an embedded
\* IPv4 address
ValidGroups(g, v4) ==
    \A k \in 1..Len(g) :
        IsGroup16(g[k]) \/ (v4 /\ k = Len(g) /\ IsIpv4(g[k]))

\* the 16-bit groups the run fills: an embedded IPv4 address fills two
GroupCount(g) ==
    IF g # <<>> /\ IsIpv4(g[Len(g)]) THEN Len(g) + 1 ELSE Len(g)

\* read_ipv6_addr on the whole of s: eight groups, or a head and a tail
\* around one "::" that fill at most seven groups together; an embedded
\* IPv4 address only at the very end
IsIpv6(s) ==
    \/ LET g == GroupList(s)
       IN  ValidGroups(g, TRUE) /\ GroupCount(g) = 8
    \/ \E k \in 1..(Len(s) - 1) :
          /\ s[k] = 58 /\ s[k + 1] = 58
          /\ LET head == GroupList(SubSeq(s, 1, k - 1))
                 tail == GroupList(SubSeq(s, k + 2, Len(s)))
             IN  /\ ValidGroups(head, FALSE)
                 /\ ValidGroups(tail, TRUE)
                 /\ Len(head) + GroupCount(tail) <= 7

(***************************************************************************)
(* The anchor of the time field: RE = " \[[0-9]{1,2}/"                     *)
(***************************************************************************)

\* RE without its digits and its '/': " \["
RE_matches_at_bracket(s, p) ==
    /\ p + 1 < Len(s)
    /\ At(s, p) = 32
    /\ At(s, p + 1) = 91

\* RE matches at offset p of s
RE_matches_at(s, p) ==
    /\ p + 3 < Len(s)
    /\ At(s, p) = 32
    /\ At(s, p + 1) = 91
    /\ IsDigit(At(s, p + 2))
    /\ \/ At(s, p + 3) = 47
       \/ /\ IsDigit(At(s, p + 3))
          /\ p + 4 < Len(s)
          /\ At(s, p + 4) = 47

\* RE.find_at(s, start): the leftmost match that starts at or after start
RE_find_at(s, start) ==
    LET hits == {p \in start..(Len(s) - 1) : RE_matches_at(s, p)}
    IN  IF hits = {} THEN [some |-> FALSE, start |-> 0]
        ELSE [some |-> TRUE,
              start |-> CHOOSE p \in hits : \A q \in hits : p <= q]

(***************************************************************************)
(* impl Replace for [u8]                                                   *)
(***************************************************************************)

\* the for loop of bad_char_table from offset k on: table[c] = n - i - 1 for
\* the byte c at each offset i of the pattern, i = n - 1 included
RECURSIVE bad_char_loop_take_n(_, _, _)
bad_char_loop_take_n(pattern, k, table) ==
    IF k >= Len(pattern) THEN table
    ELSE bad_char_loop_take_n(pattern, k + 1,
             [table EXCEPT ![At(pattern, k)] = Len(pattern) - k - 1])

\* bad_char_table with the loop over all n bytes of the pattern
bad_char_table_take_n(pattern) ==
    bad_char_loop_take_n(pattern, 0, [c \in 0..255 |-> Len(pattern)])

\* the for loop of bad_char_table from offset k on: table[c] = n - i - 1 for
\* the byte c at each offset i < n - 1 of the pattern (take(n - 1))
RECURSIVE bad_char_loop(_, _, _)
bad_char_loop(pattern, k, table) ==
    IF k >= Len(pattern) - 1 THEN table
    ELSE bad_char_loop(pattern, k + 1,
             [table EXCEPT ![At(pattern, k)] = Len(pattern) - k - 1])

\* Replace::bad_char_table: [n; 256], then the loop
bad_char_table(pattern) ==
    bad_char_loop(pattern, 0, [c \in 0..255 |-> Len(pattern)])

\* the comparison of the last byte of the window only
WindowMatches_last_byte(self, pattern, k) ==
    At(pattern, Len(pattern) - 1) = At(self, k + Len(pattern) - 1)

\* the inner loop of bmsearch: the window at offset k is compared with the
\* pattern from its last byte down to its first
WindowMatches(self, pattern, k) ==
    \A j \in 0..(Len(pattern) - 1) : At(pattern, j) = At(self, k + j)

\* the condition of the outer loop of bmsearch
bm_continue(k, m, n) == k < m - n

\* the advance of the window after the comparison at offset k
bm_shift(self, pattern, table, k) == table[At(self, k + Len(pattern) - 1)]

\* the outer loop of bmsearch from window offset k on
RECURSIVE bm_loop(_, _, _, _, _)
bm_loop(self, pattern, table, k, indices) ==
    IF ~bm_continue(k, Len(self), Len(pattern)) THEN indices
    ELSE bm_loop(self, pattern, table,
                 k + bm_shift(self, pattern, table, k),
                 IF WindowMatches(self, pattern, k)
                 THEN Append(indices, k) ELSE indices)

\* Replace::bmsearch: Some(indices) or None
bmsearch(self, pattern) ==
    IF pattern = <<>> \/ Len(pattern) > Len(self)
    THEN [some |-> FALSE, indices |-> <<>>]
    ELSE LET indices == bm_loop(self, pattern, bad_char_table(pattern), 0, <<>>)
         IN  [some |-> indices # <<>>, indices |-> indices]

\* the for loop of Replace::replace over matches[k..], with i the offset
\* after the previous match; a slice self[i..m] with i > m panics
RECURSIVE replace_loop(_, _, _, _, _, _)
replace_loop(self, n, new, matches, at, result) ==
    IF matches = <<>>
    THEN IF at > Len(self) THEN [ok |-> FALSE, bytes |-> result]
         ELSE [ok |-> TRUE, bytes |-> result \o SliceFrom(self, at)]
    ELSE LET m == Head(matches)
         IN  IF at > m \/ m > Len(self) THEN [ok |-> FALSE, bytes |-> result]
             ELSE replace_loop(self, n, new, Tail(matches), m + n,
                               result \o Slice(self, at, m) \o new)

\* Replace::replace: [ok |-> it returned, bytes |-> the new buffer]
replace(self, old, new) ==
    LET found == bmsearch(self, old)
    IN  IF found.some
        THEN replace_loop(self, Len(old), new, found.indices, 0, <<>>)
        ELSE [ok |-> TRUE, bytes |-> self]

\* write_or_replace: the bytes handed to the writer, unless replace panics
write_or_replace(slice, ndl, rep, should_replace) ==
    IF should_replace /\ ndl # <<>>
    THEN replace(slice, ndl, rep)
    ELSE [ok |-> TRUE, bytes |-> slice]

(***************************************************************************)
(* The inputs of the model                                                 *)
(***************************************************************************)

\* the most copies of the token put at the end of a line
MaxCopies == 1

\* Config::default(): "127.0.0.1", "::1", "localhost"
DefaultRepl ==
    [ipv4 |-> <<49, 50, 55, 46, 48, 46, 48, 46, 49>>,
     ipv6 |-> <<58, 58, 49>>,
     host |-> <<108, 111, 99, 97, 108, 104, 111, 115, 116>>]

\* custom replacement strings: the empty string, "6" and "xx"
CustomRepl == [ipv4 |-> <<>>, ipv6 |-> <<54>>, host |-> <<120, 120>>]

Configs ==
    {[ipv4 |-> r.ipv4, ipv6 |-> r.ipv6, host |-> r.host, skip |-> sk,
      authuser |-> au, trim |-> tr, thorough |-> th, optimize |-> op,
      flush |-> fl] :
        r \in {DefaultRepl, CustomRepl},
        sk \in BOOLEAN, au \in BOOLEAN, tr \in BOOLEAN,
        th \in BOOLEAN, op \in BOOLEAN, fl \in BOOLEAN}

\* Config::default()
DefaultConfig ==
    [ipv4 |-> DefaultRepl.ipv4, ipv6 |-> DefaultRepl.ipv6,
     host |-> DefaultRepl.host, skip |-> FALSE, authuser |-> FALSE,
     trim |-> TRUE, thorough |-> FALSE, optimize |-> TRUE, flush |-> FALSE]

\* what precedes the token: nothing, or a tab and a space
Leads == { <<>>, <<9, 32>> }

\* "8.8.8.8", "::1", "aa", the bytes 00 9F (invalid UTF-8) and the empty
\* token
Tokens ==
    { <<56, 46, 56, 46, 56, 46, 56>>, <<58, 58, 49>>, <<97, 97>>,
      <<0, 159>>, <<>> }

\* what follows the token: nothing, " - f", " - -", " ab-"
Mids == { <<>>, <<32, 45, 32, 102>>, <<32, 45, 32, 45>>, <<32, 97, 98, 45>> }

\* the time field: none, " [1/", " [12/", " [x"
Anchors == { <<>>, <<32, 91, 49, 47>>, <<32, 91, 49, 50, 47>>, <<32, 91, 120>> }

RECURSIVE Copies(_, _)
Copies(s, k) == IF k = 0 THEN <<>> ELSE s \o Copies(s, k - 1)

\* the last two bytes of t (all of t when it is shorter)
LastTwo(t) == IF Len(t) <= 2 THEN t ELSE SubSeq(t, Len(t) - 1, Len(t))

\* the end of the line: up to MaxCopies copies of " " and the token, or the
\* token followed by its own last two bytes
Tails(t) ==
    {Copies(<<32>> \o t, k) : k \in 0..MaxCopies}
        \cup { <<32>> \o t \o LastTwo(t) }

\* the line terminator: none (the last line of the input), "\n" or "\r\n"
Terminators == { <<>>, <<10>>, <<13, 10>> }

\* the lines around the token t
LinesOf(t) ==
    {w \o t \o m \o a \o e \o z :
        w \in Leads, m \in Mids, a \in Anchors, e \in Tails(t),
        z \in Terminators}

Lines == UNION {LinesOf(t) : t \in Tokens}

(***************************************************************************)
(* replace_remote_address                                                  *)
(***************************************************************************)

\* BufRead::read_until(b'\n'): the bytes up to and including the first LF,
\* or all of them when there is none
read_until(r) ==
    IF \E k \in 1..Len(r) : r[k] = 10
    THEN SubSeq(r, 1, CHOOSE k \in 1..Len(r) :
                          r[k] = 10 /\ \A j \in 1..(k - 1) : r[j] # 10)
    ELSE r

\* the offset of the first byte that is not ASCII whitespace, or 0 when
\* there is none (position(..).unwrap_or(0))
trim_start(line) ==
    LET nonws == {k \in 0..(Len(line) - 1) : ~is_ascii_whitespace(At(line, k))}
    IN  IF nonws = {} THEN 0
        ELSE CHOOSE k \in nonws : \A j \in nonws : k <= j

\* the buffer after the optional buf.drain(..s)
trimmed(line, trim) == IF trim THEN SliceFrom(line, trim_start(line)) ELSE line

\* the offsets of the ASCII whitespace bytes of the buffer
whitespace_offsets(b) == {k \in 0..(Len(b) - 1) : is_ascii_whitespace(At(b, k))}

\* the offset at which the for loop over the buffer stops
first_whitespace(b) ==
    CHOOSE k \in whitespace_offsets(b) : \A j \in whitespace_offsets(b) : k <= j

\* classify without the Ipv6Addr arm
classify_no_ipv6(ndl, skip) ==
    IF IsIpv4(ndl) THEN "ipv4"
    ELSE IF ndl = <<>> /\ skip THEN "skip"
    ELSE "host"

\* classify with skip taken for every needle that is no address
classify_skip_unparsed(ndl, skip) ==
    IF IsIpv4(ndl) THEN "ipv4"
    ELSE IF IsIpv6(ndl) THEN "ipv6"
    ELSE IF skip THEN "skip"
    ELSE "host"

\* the match on the needle: which arm is taken
classify(ndl, skip) ==
    IF IsIpv4(ndl) THEN "ipv4"
    ELSE IF IsIpv6(ndl) THEN "ipv6"
    ELSE IF ndl = <<>> /\ skip THEN "skip"
    ELSE "host"

\* the replacement string of an arm
replacement(cfg, arm) ==
    CASE arm = "ipv4" -> cfg.ipv4
      [] arm = "ipv6" -> cfg.ipv6
      [] OTHER -> cfg.host

\* is_optimized && buf[i + 3..i + 6] == "- ["
optimized_hit(cfg, b, k) ==
    /\ cfg.optimize
    /\ Len(b) >= k + 6
    /\ Slice(b, k + 3, k + 6) = <<45, 32, 91>>

\* run before any input is opened, no I/O error met
NoResult == [tag |-> "none", arg |-> 0]

\* no call of bmsearch under way
BmIdle ==
    [pc |-> "idle", self |-> <<>>, pattern |-> <<>>, i |-> 0, indices |-> <<>>,
     some |-> FALSE]

\* run_raw is called with a Config (flush off, as Config::default() has
\* it), a reader holding one line and an empty sink
Init ==
    /\ config \in {c \in Configs : ~c.flush}
    /\ input \in Lines
    /\ reader = input
    /\ writer = <<>>
    /\ buf = <<>>
    /\ raw = <<>>
    /\ mark = 0
    /\ i = 0
    /\ needle = <<>>
    /\ repl = <<>>
    /\ pc = "read"
    /\ pass = 1
    /\ kind = "none"
    /\ first = <<>>
    /\ flushed = 0
    /\ inputs = <<>>
    /\ arg = 0
    /\ todo = <<>>
    /\ returned = NoResult
    /\ site = "none"
    /\ bm = BmIdle

\* ReadLine without buf.clear(): the line is appended to the buffer
ReadLine_no_clear ==
    /\ pc = "read"
    /\ reader # <<>>
    /\ LET line == read_until(reader)
       IN  /\ raw' = line
           /\ buf' = trimmed(buf \o line, config.trim)
           /\ reader' = SubSeq(reader, Len(line) + 1, Len(reader))
    /\ mark' = Len(writer)
    /\ pc' = "scan"
    /\ UNCHANGED <<config, writer, i, needle, repl, input, pass, kind, first,
                   flushed, run_state, bm>>

\* read_until delivers a line; the buffer is trimmed
ReadLine ==
    /\ pc = "read"
    /\ reader # <<>>
    /\ LET line == read_until(reader)
       IN  /\ raw' = line
           /\ buf' = trimmed(line, config.trim)
           /\ reader' = SubSeq(reader, Len(line) + 1, Len(reader))
    /\ mark' = Len(writer)
    /\ pc' = "scan"
    /\ UNCHANGED <<config, writer, i, needle, repl, input, pass, kind, first,
                 flushed, run_state, bm>>

\* EndOfInput without writer.flush()
EndOfInput_no_flush ==
    /\ pc = "read"
    /\ reader = <<>>
    /\ pc' = "done"
    /\ UNCHANGED <<config, reader, writer, buf, raw, mark, i, needle, repl, input,
                   pass, kind, first, flushed, run_state, bm>>

\* read_until returns 0: the loop ends, writer.flush(), Ok(())
EndOfInput ==
    /\ pc = "read"
    /\ reader = <<>>
    /\ pc' = "done"
    /\ flushed' = Len(writer)
    /\ UNCHANGED <<config, reader, writer, buf, raw, mark, i, needle, repl, input,
                 pass, kind, first, run_state, bm>>

\* the for loop ends without meeting a whitespace byte: nothing is written
NoWhitespace ==
    /\ pc = "scan"
    /\ whitespace_offsets(buf) = {}
    /\ pc' = "read"
    /\ UNCHANGED <<config, reader, writer, buf, raw, mark, i, needle, repl, input,
                 pass, kind, first, flushed, run_state, bm>>

\* the needle is empty and skip is set: continue 'lines
SkipLine ==
    /\ pc = "scan"
    /\ whitespace_offsets(buf) # {}
    /\ LET k == first_whitespace(buf)
           ndl == from_utf8_lossy(Slice(buf, 0, k))
       IN  classify(ndl, config.skip) = "skip"
    /\ pc' = "read"
    /\ UNCHANGED <<config, reader, writer, buf, raw, mark, i, needle, repl, input,
                 pass, kind, first, flushed, run_state, bm>>

\* write!(writer, "{repl}")
WriteRepl ==
    /\ pc = "scan"
    /\ whitespace_offsets(buf) # {}
    /\ LET k == first_whitespace(buf)
           ndl == from_utf8_lossy(Slice(buf, 0, k))
           arm == classify(ndl, config.skip)
       IN  /\ arm # "skip"
           /\ i' = k
           /\ needle' = ndl
           /\ repl' = replacement(config, arm)
           /\ writer' = writer \o replacement(config, arm)
    /\ pc' = "rest"
    /\ UNCHANGED <<config, reader, buf, raw, mark, input, pass, kind, first,
                 flushed, run_state, bm>>

\* the bytes of s without a final "\n" or "\r\n"
chomp(s) ==
    IF Len(s) >= 2 /\ SubSeq(s, Len(s) - 1, Len(s)) = <<13, 10>>
    THEN SubSeq(s, 1, Len(s) - 2)
    ELSE IF Len(s) >= 1 /\ s[Len(s)] = 10 THEN SubSeq(s, 1, Len(s) - 1)
    ELSE s

\* Emit that ends every line it writes with "\n", whatever ended the input
\* line
Emit_writeln(prefix, res) ==
    /\ writer' = IF res.ok THEN writer \o prefix \o chomp(res.bytes) \o <<10>>
                 ELSE writer \o prefix
    /\ pc' = IF res.ok THEN "read" ELSE "panic"
    /\ flushed' = IF res.ok /\ config.flush THEN Len(writer') ELSE flushed
    /\ UNCHANGED <<config, reader, buf, raw, mark, i, needle, repl, input, pass,
                   kind, first, run_state, bm>>

\* the outcome of one write_or_replace call on the sink and the position,
\* followed by writer.flush() when Config.flush is set
Emit(prefix, res) ==
    /\ writer' = IF res.ok THEN writer \o prefix \o res.bytes ELSE writer \o prefix
    /\ pc' = IF res.ok THEN "read" ELSE "panic"
    /\ flushed' = IF res.ok /\ config.flush THEN Len(writer') ELSE flushed
    /\ UNCHANGED <<config, reader, buf, raw, mark, i, needle, repl, input, pass,
                 kind, first, run_state, bm>>

\* authuser, and the bytes after the token already read "- [": the rest of
\* the buffer is written without a search for the anchor
AuthOptimized ==
    /\ pc = "rest"
    /\ config.authuser
    /\ optimized_hit(config, buf, i)
    /\ Emit(<<>>, write_or_replace(SliceFrom(buf, i), needle, repl, config.thorough))

\* AuthRedact that writes the buffer from the split point, not from the anchor
AuthRedact_from_token ==
    /\ pc = "rest"
    /\ config.authuser
    /\ ~optimized_hit(config, buf, i)
    /\ RE_find_at(buf, i).some
    /\ Emit(<<32, 45, 32, 45>>,
            write_or_replace(SliceFrom(buf, i), needle, repl, config.thorough))

\* AuthRedact that writes " -" for " - -"
AuthRedact_one_dash ==
    /\ pc = "rest"
    /\ config.authuser
    /\ ~optimized_hit(config, buf, i)
    /\ RE_find_at(buf, i).some
    /\ Emit(<<32, 45>>,
            write_or_replace(SliceFrom(buf, RE_find_at(buf, i).start),
                             needle, repl, config.thorough))

\* authuser, and the anchor is found: " - -", then the buffer from the anchor
AuthRedact ==
    /\ pc = "rest"
    /\ config.authuser
    /\ ~optimized_hit(config, buf, i)
    /\ RE_find_at(buf, i).some
    /\ Emit(<<32, 45, 32, 45>>,
            write_or_replace(SliceFrom(buf, RE_find_at(buf, i).start),
                             needle, repl, config.thorough))

\* AuthNoAnchor that writes " - -" although no anchor was found
AuthNoAnchor_marks ==
    /\ pc = "rest"
    /\ config.authuser
    /\ ~optimized_hit(config, buf, i)
    /\ ~RE_find_at(buf, i).some
    /\ Emit(<<32, 45, 32, 45>>,
            write_or_replace(SliceFrom(buf, i), needle, repl, config.thorough))

\* authuser, and there is no anchor: the rest of the buffer
AuthNoAnchor ==
    /\ pc = "rest"
    /\ config.authuser
    /\ ~optimized_hit(config, buf, i)
    /\ ~RE_find_at(buf, i).some
    /\ Emit(<<>>, write_or_replace(SliceFrom(buf, i), needle, repl, config.thorough))

\* thorough without authuser
Thorough ==
    /\ pc = "rest"
    /\ ~config.authuser
    /\ config.thorough
    /\ Emit(<<>>, write_or_replace(SliceFrom(buf, i), needle, repl, TRUE))

\* Plain that writes the buffer from the byte after the split point
Plain_skip_separator ==
    /\ pc = "rest"
    /\ ~config.authuser
    /\ ~config.thorough
    /\ Emit(<<>>, [ok |-> TRUE, bytes |-> SliceFrom(buf, i + 1)])

\* neither: writer.write_all(&buf[i..])
Plain ==
    /\ pc = "rest"
    /\ ~config.authuser
    /\ ~config.thorough
    /\ Emit(<<>>, [ok |-> TRUE, bytes |-> SliceFrom(buf, i)])

\* the start of a second call of run_raw: a fresh buffer, an empty sink
SecondCall(k, cfg, bytes) ==
    /\ pc = "done"
    /\ pass = 1
    /\ pass' = 2
    /\ kind' = k
    /\ first' = writer
    /\ config' = cfg
    /\ reader' = bytes
    /\ writer' = <<>>
    /\ buf' = <<>>
    /\ raw' = <<>>
    /\ mark' = 0
    /\ pc' = "read"
    /\ flushed' = 0
    /\ UNCHANGED <<i, needle, repl, input, run_state, bm>>

\* the caller hands the output of run_raw to run_raw again, with the same
\* Config (the default replacement strings, thorough off)
Reapply ==
    /\ ~config.thorough
    /\ <<config.ipv4, config.ipv6, config.host>>
           = <<DefaultRepl.ipv4, DefaultRepl.ipv6, DefaultRepl.host>>
    /\ SecondCall("reapply", config, writer)

\* the caller runs run_raw on the same input again with Config.optimize
\* switched off (authuser on: optimize is read nowhere else)
FlipOptimize ==
    /\ config.authuser
    /\ config.optimize
    /\ SecondCall("flip", [config EXCEPT !.optimize = ~config.optimize], input)

Next ==
    \/ ReadLine
    \/ EndOfInput
    \/ NoWhitespace
    \/ SkipLine
    \/ WriteRepl
    \/ AuthOptimized
    \/ AuthRedact
    \/ AuthNoAnchor
    \/ Thorough
    \/ Plain
    \/ Reapply
    \/ FlipOptimize

Spec == Init /\ [][Next]_vars

(***************************************************************************)
(* run: the inputs of IOConfig are opened one after the other and handed   *)
(* to replace_remote_address with the one writer; a reader or the writer   *)
(* may return an I/O error at any call                                     *)
(***************************************************************************)

\* the most inputs pushed
MaxInputs == 2

\* "8.8.8.8 - f [1/x\n", "aa - - [1/\n", " \n", "aa" and "aa aaaa"
LineA ==
    <<56, 46, 56, 46, 56, 46, 56, 32, 45, 32, 102, 32, 91, 49, 47, 120, 10>>

LineB == <<97, 97, 32, 45, 32, 45, 32, 91, 49, 47, 10>>

LineE == <<32, 10>>

LineC == <<97, 97>>

LineD == <<97, 97, 32, 97, 97, 97, 97>>

RunLines == {LineA, LineB, LineE, LineC, LineD}

\* the content of an input: one line, or a terminated line and one more
Sources ==
    RunLines
        \cup {x \o y : x \in {LineA, LineE}, y \in {LineB, LineE, LineC, LineD}}

\* an input of IOConfig: a file that opens and holds a source, or a path
\* that cannot be opened
Entries ==
    {[ok |-> TRUE, bytes |-> src] : src \in Sources}
        \cup {[ok |-> FALSE, bytes |-> <<>>]}

\* Config::default() with skip, authuser, thorough and flush set either way
RunConfigs ==
    {[DefaultConfig EXCEPT !.skip = sk, !.authuser = au, !.thorough = th,
                           !.flush = fl] :
        sk \in BOOLEAN, au \in BOOLEAN, th \in BOOLEAN, fl \in BOOLEAN}

\* IOConfig::push_input with the path put in front of the list
push_input_front(list, e) == <<e>> \o list

\* IOConfig::push_input: input.push(i)
push_input(list, e) == Append(list, e)

\* the lines of a source, in order
RECURSIVE LineSeq(_)
LineSeq(bytes) ==
    IF bytes = <<>> THEN <<>>
    ELSE <<read_until(bytes)>>
             \o LineSeq(SubSeq(bytes, Len(read_until(bytes)) + 1, Len(bytes)))

\* IOConfig::new(), an empty sink, and a Config
InitRun ==
    /\ config \in RunConfigs
    /\ input = <<>>
    /\ reader = <<>>
    /\ writer = <<>>
    /\ buf = <<>>
    /\ raw = <<>>
    /\ mark = 0
    /\ i = 0
    /\ needle = <<>>
    /\ repl = <<>>
    /\ pc = "config"
    /\ pass = 1
    /\ kind = "none"
    /\ first = <<>>
    /\ flushed = 0
    /\ inputs = <<>>
    /\ arg = 0
    /\ todo = <<>>
    /\ returned = NoResult
    /\ site = "none"
    /\ bm = BmIdle

\* the caller pushes an input
PushInput ==
    /\ pc = "config"
    /\ Len(inputs) < MaxInputs
    /\ \E e \in Entries : inputs' = push_input(inputs, e)
    /\ UNCHANGED <<config, reader, writer, buf, raw, mark, i, needle, repl, pc,
                   input, pass, kind, first, flushed, arg, todo, returned, site,
                   bm>>

\* a call of replace_remote_address on a reader that holds bytes
Call(bytes) ==
    /\ reader' = bytes
    /\ buf' = <<>>
    /\ raw' = <<>>
    /\ mark' = Len(writer)
    /\ pc' = "read"

\* run with IOConfig.input = None: the reader is stdin
RunStdin ==
    /\ pc = "config"
    /\ inputs = <<>>
    /\ \E src \in Sources : input' = src /\ Call(src)
    /\ UNCHANGED <<config, writer, i, needle, repl, pass, kind, first, flushed,
                   run_state, bm>>

\* run is at the head of its loop over the inputs, one of them left
AtInput ==
    /\ pc \in {"config", "open", "done"}
    /\ arg < Len(inputs)

\* OpenInput that takes the inputs from the last one to the first
OpenInput_reverse ==
    /\ AtInput
    /\ inputs[Len(inputs) - arg].ok
    /\ arg' = arg + 1
    /\ Call(inputs[Len(inputs) - arg].bytes)
    /\ UNCHANGED <<config, writer, i, needle, repl, input, pass, kind, first,
                   flushed, inputs, todo, returned, site, bm>>

\* File::open succeeds: replace_remote_address is called on the file
OpenInput ==
    /\ AtInput
    /\ inputs[arg + 1].ok
    /\ arg' = arg + 1
    /\ Call(inputs[arg + 1].bytes)
    /\ UNCHANGED <<config, writer, i, needle, repl, input, pass, kind, first,
                   flushed, inputs, todo, returned, site, bm>>

\* OpenFails that goes on with the next input
OpenFails_skip ==
    /\ AtInput
    /\ ~inputs[arg + 1].ok
    /\ arg' = arg + 1
    /\ pc' = "done"
    /\ UNCHANGED <<config, reader, writer, buf, raw, mark, i, needle, repl, input,
                   pass, kind, first, flushed, inputs, todo, returned, site, bm>>

\* File::open fails: Err("Can not open input '<arg>': ..")
OpenFails ==
    /\ AtInput
    /\ ~inputs[arg + 1].ok
    /\ arg' = arg + 1
    /\ returned' = [tag |-> "Err", arg |-> arg + 1]
    /\ pc' = "returned"
    /\ UNCHANGED <<config, reader, writer, buf, raw, mark, i, needle, repl, input,
                   pass, kind, first, flushed, inputs, todo, site, bm>>

\* the loop over the inputs is over (or stdin is at its end): Ok(())
RunOk ==
    /\ pc = "done"
    /\ arg = Len(inputs)
    /\ returned' = [tag |-> "Ok", arg |-> 0]
    /\ pc' = "returned"
    /\ UNCHANGED <<config, reader, writer, buf, raw, mark, i, needle, repl, input,
                   pass, kind, first, flushed, inputs, arg, todo, site, bm>>

\* replace_remote_address returns the error of the operation named
Fail(op) ==
    /\ pass = 1
    /\ site' = op
    /\ pc' = "err"
    /\ UNCHANGED <<config, reader, buf, raw, mark, i, needle, repl, input, pass,
                   kind, first, flushed, inputs, arg, todo, returned, bm>>

\* reader.read_until(..)? returns Err
ReadError ==
    /\ pc = "read"
    /\ writer' = writer
    /\ Fail("read")

\* the write_or_replace call of the branch taken for the rest of the line,
\* and what is written before it
rest_call ==
    IF config.authuser
    THEN IF optimized_hit(config, buf, i)
         THEN [prefix |-> <<>>,
               res |-> write_or_replace(SliceFrom(buf, i), needle, repl,
                                        config.thorough)]
         ELSE IF RE_find_at(buf, i).some
         THEN [prefix |-> <<32, 45, 32, 45>>,
               res |-> write_or_replace(SliceFrom(buf, RE_find_at(buf, i).start),
                                        needle, repl, config.thorough)]
         ELSE [prefix |-> <<>>,
               res |-> write_or_replace(SliceFrom(buf, i), needle, repl,
                                        config.thorough)]
    ELSE IF config.thorough
         THEN [prefix |-> <<>>,
               res |-> write_or_replace(SliceFrom(buf, i), needle, repl, TRUE)]
         ELSE [prefix |-> <<>>, res |-> [ok |-> TRUE, bytes |-> SliceFrom(buf, i)]]

\* a write of the line returns Err: the write of the replacement, with
\* nothing written, or a write of the rest, with nothing of the rest, with
\* " - -" alone or with all but the last byte written
WriteError ==
    \/ /\ pc = "scan"
       /\ whitespace_offsets(buf) # {}
       /\ LET k == first_whitespace(buf)
              arm == classify(from_utf8_lossy(Slice(buf, 0, k)), config.skip)
          IN  arm # "skip" /\ replacement(config, arm) # <<>>
       /\ writer' = writer
       /\ Fail("write")
    \/ /\ pc = "rest"
       /\ rest_call.res.ok
       /\ LET all == rest_call.prefix \o rest_call.res.bytes
          IN  \E k \in {0, Len(rest_call.prefix), Len(all) - 1} :
                  /\ k < Len(all)
                  /\ writer' = writer \o SubSeq(all, 1, k)
       /\ Fail("write")

\* writer.flush()? returns Err: after a line, or at the end of the input
FlushError ==
    \/ /\ pc = "rest"
       /\ config.flush
       /\ rest_call.res.ok
       /\ writer' = writer \o rest_call.prefix \o rest_call.res.bytes
       /\ Fail("flush")
    \/ /\ pc = "read"
       /\ reader = <<>>
       /\ writer' = writer
       /\ Fail("flush")

\* RunErr that drops the error and goes on with the next input
RunErr_continue ==
    /\ pc = "err"
    /\ pc' = "done"
    /\ UNCHANGED <<config, reader, writer, buf, raw, mark, i, needle, repl, input,
                   pass, kind, first, flushed, inputs, arg, todo, returned, site,
                   bm>>

\* run (or run_raw) returns the I/O error as an IOError
RunErr ==
    /\ pc = "err"
    /\ returned' = [tag |-> "Err", arg |-> 0]
    /\ pc' = "returned"
    /\ UNCHANGED <<config, reader, writer, buf, raw, mark, i, needle, repl, input,
                   pass, kind, first, flushed, inputs, arg, todo, site, bm>>

\* After run has returned, the caller runs parts of the same input alone,
\* one call of run each, all appending to one new sink: after Ok on stdin,
\* each line; after Ok on files, each file; after a file that did not open,
\* each file before it.
StartAlone ==
    /\ pc = "returned"
    /\ pass = 1
    /\ site = "none"
    /\ \/ /\ returned.tag = "Ok"
          /\ inputs = <<>>
          /\ kind' = "lines"
          /\ todo' = [k \in 1..Len(LineSeq(input)) |->
                         [ok |-> TRUE, bytes |-> LineSeq(input)[k]]]
       \/ /\ returned.tag = "Ok"
          /\ inputs # <<>>
          /\ kind' = "inputs"
          /\ todo' = inputs
       \/ /\ returned.tag = "Err"
          /\ kind' = "before"
          /\ todo' = SubSeq(inputs, 1, returned.arg - 1)
    /\ pass' = 2
    /\ first' = writer
    /\ writer' = <<>>
    /\ flushed' = 0
    /\ inputs' = <<>>
    /\ arg' = 0
    /\ returned' = [tag |-> "Ok", arg |-> 0]
    /\ UNCHANGED <<config, reader, buf, raw, mark, i, needle, repl, pc, input,
                   site, bm>>

\* the next part is run alone
RunAlone ==
    /\ pc = "returned"
    /\ pass = 2
    /\ returned.tag = "Ok"
    /\ todo # <<>>
    /\ inputs' = <<Head(todo)>>
    /\ todo' = Tail(todo)
    /\ arg' = 0
    /\ returned' = NoResult
    /\ pc' = "open"
    /\ UNCHANGED <<config, reader, writer, buf, raw, mark, i, needle, repl, input,
                   pass, kind, first, flushed, site, bm>>

NextRun ==
    \/ PushInput
    \/ RunStdin
    \/ OpenInput
    \/ OpenFails
    \/ RunOk
    \/ ReadLine
    \/ EndOfInput
    \/ NoWhitespace
    \/ SkipLine
    \/ WriteRepl
    \/ AuthOptimized
    \/ AuthRedact
    \/ AuthNoAnchor
    \/ Thorough
    \/ Plain
    \/ ReadError
    \/ WriteError
    \/ FlushError
    \/ RunErr
    \/ StartAlone
    \/ RunAlone

SpecRun == InitRun /\ [][NextRun]_vars

(***************************************************************************)
(* Replace::bmsearch, one iteration of its outer loop at a time, on          *)
(* haystacks and patterns over a two-letter alphabet                        *)
(***************************************************************************)

\* the longest haystack and the longest pattern
MaxHaystack == 5

MaxPattern == 3

\* the byte strings over "a" and "b" of length at most n
RECURSIVE Strings(_)
Strings(n) ==
    IF n = 0 THEN { <<>> }
    ELSE Strings(n - 1)
             \cup {Append(w, c) : w \in {v \in Strings(n - 1) : Len(v) = n - 1},
                                  c \in {97, 98}}

\* everything but the call of bmsearch is at rest
Idle ==
    /\ config = DefaultConfig
    /\ input = <<>>
    /\ reader = <<>>
    /\ writer = <<>>
    /\ buf = <<>>
    /\ raw = <<>>
    /\ mark = 0
    /\ i = 0
    /\ needle = <<>>
    /\ repl = <<>>
    /\ pc = "search"
    /\ pass = 1
    /\ kind = "none"
    /\ first = <<>>
    /\ flushed = 0
    /\ inputs = <<>>
    /\ arg = 0
    /\ todo = <<>>
    /\ returned = NoResult
    /\ site = "none"

\* self.bmsearch(pattern) is called
InitSearch ==
    /\ Idle
    /\ \E h \in Strings(MaxHaystack), p \in Strings(MaxPattern) :
           bm = [pc |-> "call", self |-> h, pattern |-> p, i |-> 0,
                 indices |-> <<>>, some |-> FALSE]

\* the guard of bmsearch: None for the empty pattern and for n > m
BmCall ==
    /\ bm.pc = "call"
    /\ bm' = IF bm.pattern = <<>> \/ Len(bm.pattern) > Len(bm.self)
             THEN [bm EXCEPT !.pc = "done"]
             ELSE [bm EXCEPT !.pc = "loop"]
    /\ UNCHANGED <<config, reader, writer, buf, raw, mark, i, needle, repl, pc,
                   input, pass, kind, first, flushed, run_state>>

\* one iteration of the outer loop: the window is compared, its offset
\* pushed when it matches, and the window advanced by the table entry of its
\* last byte
BmStep ==
    /\ bm.pc = "loop"
    /\ bm_continue(bm.i, Len(bm.self), Len(bm.pattern))
    /\ bm' = [bm EXCEPT
                 !.indices = IF WindowMatches(bm.self, bm.pattern, bm.i)
                             THEN Append(bm.indices, bm.i) ELSE bm.indices,
                 !.i = bm.i + bm_shift(bm.self, bm.pattern,
                                       bad_char_table(bm.pattern), bm.i)]
    /\ UNCHANGED <<config, reader, writer, buf, raw, mark, i, needle, repl, pc,
                   input, pass, kind, first, flushed, run_state>>

\* the loop ends: None when indices is empty, Some(indices) otherwise
BmReturn ==
    /\ bm.pc = "loop"
    /\ ~bm_continue(bm.i, Len(bm.self), Len(bm.pattern))
    /\ bm' = [bm EXCEPT !.pc = "done", !.some = (bm.indices # <<>>)]
    /\ UNCHANGED <<config, reader, writer, buf, raw, mark, i, needle, repl, pc,
                   input, pass, kind, first, flushed, run_state>>

NextSearch ==
    \/ BmCall
    \/ BmStep
    \/ BmReturn

\* a call that has begun runs on: nothing else is scheduled
SpecSearch == InitSearch /\ [][NextSearch]_vars /\ WF_vars(NextSearch)

(***************************************************************************)
(* The vocabulary of the properties.  A line is described from the bytes   *)
(* read (raw) and the bytes written for it (LineOut), not from the         *)
(* operators of the pipeline.                                              *)
(***************************************************************************)

\* the current line has been processed to its end
LineDone == pc = "read" /\ raw # <<>>

\* the bytes written to the sink for the current line
LineOut == SliceFrom(writer, mark)

HasWhitespace(s) == \E k \in 1..Len(s) : is_ascii_whitespace(s[k])

\* the number of bytes of the maximal whitespace prefix of s
LeadingWhitespace(s) ==
    IF \A k \in 1..Len(s) : is_ascii_whitespace(s[k]) THEN Len(s)
    ELSE (CHOOSE k \in 1..Len(s) :
              /\ ~is_ascii_whitespace(s[k])
              /\ \A j \in 1..(k - 1) : is_ascii_whitespace(s[j])) - 1

\* the line without its maximal whitespace prefix when trimming is on
Scanned(s, trim) == IF trim THEN SliceFrom(s, LeadingWhitespace(s)) ELSE s

\* the offset of the first whitespace byte of s
TokenEnd(s) ==
    (CHOOSE k \in 1..Len(s) :
         /\ is_ascii_whitespace(s[k])
         /\ \A j \in 1..(k - 1) : ~is_ascii_whitespace(s[j])) - 1

\* the line as the scanner should see it
L == Scanned(raw, config.trim)

\* the line has a non-empty token followed by a whitespace byte
HasToken == HasWhitespace(L) /\ TokenEnd(L) > 0

\* the token, as bytes and as decoded text
TokenBytes == Slice(L, 0, TokenEnd(L))

TokenText == from_utf8_lossy(TokenBytes)

\* the line from the first whitespace byte after the token on
Remainder == SliceFrom(L, TokenEnd(L))

\* the replacement the priority IPv4, IPv6, host gives the token
Expected ==
    IF IsIpv4(TokenText) THEN config.ipv4
    ELSE IF IsIpv6(TokenText) THEN config.ipv6
    ELSE config.host

IsPrefix(p, s) == Len(p) <= Len(s) /\ SubSeq(s, 1, Len(p)) = p

(***************************************************************************)
(* C1: for a line with a non-empty token the output line starts with one   *)
(* replacement, Config.ipv4 for an IPv4 token, else Config.ipv6 for an     *)
(* IPv6 token, else Config.host, and a token that is not valid UTF-8 gets  *)
(* Config.host; the replacement is followed by a whitespace byte (the      *)
(* remainder or " - -"), so it is the leading token of the output.         *)
(***************************************************************************)
C1_ReplacementByPriority ==
    (raw # <<>> /\ pc \in {"rest", "read", "panic"} /\ HasToken) =>
        /\ IsPrefix(Expected, LineOut)
        /\ (TokenText # TokenBytes => IsPrefix(config.host, LineOut))
        /\ (pc = "read" =>
                /\ Len(LineOut) > Len(Expected)
                /\ is_ascii_whitespace(LineOut[Len(Expected) + 1]))

\* a line with a token that is not valid UTF-8 was written with Config.host
C1_Witness ==
    /\ LineDone /\ HasToken
    /\ TokenText # TokenBytes
    /\ LineOut = config.host \o Remainder

(***************************************************************************)
(* C2: with authuser and thorough off, the output of a line with a token   *)
(* is the replacement followed by the bytes of the line from the first     *)
(* whitespace byte after the token to its end, unchanged.                  *)
(***************************************************************************)
C2_RemainderVerbatim ==
    (LineDone /\ ~config.authuser /\ ~config.thorough /\ HasToken) =>
        LineOut = Expected \o Remainder

\* an IPv4 token was replaced by the empty string and the remainder kept
C2_Witness ==
    /\ LineDone /\ ~config.authuser /\ ~config.thorough /\ HasToken
    /\ Expected = <<>>
    /\ Len(Remainder) > 1
    /\ LineOut = Remainder

(***************************************************************************)
(* C3: a line without any whitespace byte is written unchanged when        *)
(* Config.skip is off and not written when it is on.                       *)
(***************************************************************************)
C3_NoWhitespaceLine ==
    (LineDone /\ ~HasWhitespace(raw)) =>
        LineOut = IF config.skip THEN <<>> ELSE raw

\* s with every occurrence of the non-empty pattern replaced, the
\* occurrences taken greedily from left to right without overlap
RECURSIVE GreedyReplace(_, _, _)
GreedyReplace(s, pat, new) ==
    IF Len(s) < Len(pat) THEN s
    ELSE IF SubSeq(s, 1, Len(pat)) = pat
         THEN new \o GreedyReplace(SubSeq(s, Len(pat) + 1, Len(s)), pat, new)
         ELSE <<s[1]>> \o GreedyReplace(Tail(s), pat, new)

\* the start offsets of those occurrences, counted from offset base
RECURSIVE GreedyOffsets(_, _, _)
GreedyOffsets(s, pat, base) ==
    IF Len(s) < Len(pat) THEN {}
    ELSE IF SubSeq(s, 1, Len(pat)) = pat
         THEN {base} \cup GreedyOffsets(SubSeq(s, Len(pat) + 1, Len(s)), pat,
                                        base + Len(pat))
         ELSE GreedyOffsets(Tail(s), pat, base + 1)

\* the non-empty pattern occurs in s
Occurs(pat, s) ==
    /\ pat # <<>>
    /\ \E k \in 0..(Len(s) - Len(pat)) : Slice(s, k, k + Len(pat)) = pat

Elements(seq) == {seq[k] : k \in 1..Len(seq)}

(***************************************************************************)
(* C4: with thorough on (authuser off) and a non-empty token, the output   *)
(* is the replacement followed by the remainder in which every             *)
(* non-overlapping left-to-right occurrence of the token's text is         *)
(* replaced, the one that ends at the last byte included; bmsearch         *)
(* returns the start offset of each of these occurrences.                  *)
(***************************************************************************)
C4_ThoroughReplacesAll ==
    /\ (LineDone /\ config.thorough /\ ~config.authuser /\ HasToken) =>
           LineOut = Expected \o GreedyReplace(Remainder, TokenText, Expected)
    /\ (pc = "rest" /\ config.thorough /\ ~config.authuser /\ HasToken) =>
           GreedyOffsets(Remainder, TokenText, 0)
               \subseteq Elements(bmsearch(Remainder, TokenText).indices)

(***************************************************************************)
(* C5: the occurrences replace uses are disjoint: each offset bmsearch     *)
(* hands it is at least a pattern length after the one before, and the     *)
(* replacement completes normally (no panic).                              *)
(***************************************************************************)
C5_NonOverlapping ==
    /\ pc # "panic"
    /\ (pc = "rest" /\ config.thorough /\ ~config.authuser /\ HasToken) =>
           LET found == bmsearch(Remainder, TokenText).indices
           IN  \A k \in 1..(Len(found) - 1) :
                   found[k + 1] >= found[k] + Len(TokenText)

\* the anchor (space, '[', one or two digits, '/') starts at offset p of s
IsAnchor(s, p) ==
    \/ /\ p + 4 <= Len(s)
       /\ \E d \in 48..57 : Slice(s, p, p + 4) = <<32, 91, d, 47>>
    \/ /\ p + 5 <= Len(s)
       /\ \E d \in 48..57, e \in 48..57 : Slice(s, p, p + 5) = <<32, 91, d, e, 47>>

\* an anchor starts at or after offset from
AnchorFrom(s, from) == \E p \in from..Len(s) : IsAnchor(s, p)

\* the start of the leftmost of them
LeftmostAnchor(s, from) ==
    CHOOSE p \in from..Len(s) :
        IsAnchor(s, p) /\ \A q \in from..(p - 1) : ~IsAnchor(s, q)

\* the bytes at offsets e + 3 .. e + 6 of s, e the end of the token, are "- ["
ShortcutWindow(s) ==
    /\ Len(s) >= TokenEnd(s) + 6
    /\ Slice(s, TokenEnd(s) + 3, TokenEnd(s) + 6) = <<45, 32, 91>>

\* the line is written (it has a whitespace byte and is not skipped as a
\* line with an empty token), authuser is on, the shortcut is not taken and
\* an anchor lies at or after the end of the token
RedactionCase ==
    /\ config.authuser
    /\ HasWhitespace(L)
    /\ (TokenEnd(L) > 0 \/ ~config.skip)
    /\ ~(config.optimize /\ ShortcutWindow(L))
    /\ AnchorFrom(L, TokenEnd(L))

\* the redacted line: the replacement, " - -", the line from the anchor on
Redacted ==
    Expected \o <<32, 45, 32, 45>>
        \o SliceFrom(L, LeftmostAnchor(L, TokenEnd(L)))

(***************************************************************************)
(* C6 as stated: in the redaction case the output line is the replacement, *)
(* " - -" and the input line from the leftmost anchor to its end, whatever *)
(* thorough is.                                                            *)
(***************************************************************************)
C6_Original == (LineDone /\ RedactionCase) => LineOut = Redacted

(***************************************************************************)
(* C6 amended: in the redaction case, provided that with thorough on the   *)
(* token's text does not occur in the line from the anchor on, the output  *)
(* line is the replacement, " - -" and the input line from the leftmost    *)
(* anchor to its end; the bytes between token and anchor are not written.  *)
(***************************************************************************)
C6_Redaction ==
    (/\ LineDone
     /\ RedactionCase
     /\ (config.thorough =>
            ~Occurs(TokenText, SliceFrom(L, LeftmostAnchor(L, TokenEnd(L))))))
        => LineOut = Redacted

\* a line whose user field lay between token and anchor was redacted
C6_Witness ==
    /\ LineDone /\ RedactionCase /\ HasToken
    /\ LeftmostAnchor(L, TokenEnd(L)) > TokenEnd(L)
    /\ LineOut = Redacted

\* the lines of an input: each ends with its LF, but for the last one
RECURSIVE InputLines(_)
InputLines(bytes) ==
    IF bytes = <<>> THEN {}
    ELSE IF \A k \in 1..Len(bytes) : bytes[k] # 10 THEN {bytes}
    ELSE LET p == CHOOSE k \in 1..Len(bytes) :
                      bytes[k] = 10 /\ \A j \in 1..(k - 1) : bytes[j] # 10
         IN  {SubSeq(bytes, 1, p)}
                 \cup InputLines(SubSeq(bytes, p + 1, Len(bytes)))

\* both calls of the optimize experiment have returned
FlipDone == pc = "done" /\ pass = 2 /\ kind = "flip"

\* On the line the shortcut and the search for the anchor write the same:
\* the window after the token does not read "- [", or it does and the
\* search finds no anchor, or it does and the token is followed by " - -"
\* and directly by the anchor (with thorough on, a token other than "-").
ShortcutAgrees(line, cfg) ==
    LET s == Scanned(line, cfg.trim)
        e == TokenEnd(s)
    IN  \/ ~HasWhitespace(s)
        \/ ~ShortcutWindow(s)
        \/ ~AnchorFrom(s, e)
        \/ /\ Slice(s, e, e + 3) = <<32, 45, 32>>
           /\ LeftmostAnchor(s, e) = e + 4
           /\ (cfg.thorough => from_utf8_lossy(Slice(s, 0, e)) # <<45>>)

(***************************************************************************)
(* C7 as stated: with authuser on, the output with Config.optimize = true  *)
(* is the output with Config.optimize = false, for every input.            *)
(***************************************************************************)
C7_Original == FlipDone => writer = first

(***************************************************************************)
(* C7 amended: with authuser on, the two outputs are the same for every    *)
(* input on whose lines the shortcut agrees with the search: the bytes at  *)
(* offsets 3..6 after the token end are not "- [", or no anchor lies at or *)
(* after the token end, or the token is followed by " - -" and directly by *)
(* the anchor (and, with thorough on, the token is not "-").               *)
(***************************************************************************)
C7_OptimizeOnRedactedLines ==
    (FlipDone /\ \A line \in InputLines(input) : ShortcutAgrees(line, config))
        => writer = first

\* both calls were made on a line "<token> - - [d/..", on which the
\* shortcut is taken, and wrote the same non-empty output
C7_Witness ==
    /\ FlipDone
    /\ writer = first
    /\ writer # <<>>
    /\ \E line \in InputLines(input) :
          LET s == Scanned(line, config.trim)
          IN  /\ HasWhitespace(s) /\ TokenEnd(s) > 0
              /\ ShortcutWindow(s)
              /\ AnchorFrom(s, TokenEnd(s))
              /\ ShortcutAgrees(line, config)

(***************************************************************************)
(* C8: when the first byte of the buffer handed to the scanner is          *)
(* whitespace the token is empty: with skip off the line is written as     *)
(* Config.host followed by the buffer (redacted from the anchor on when    *)
(* authuser finds one and the shortcut is not taken), with skip on nothing *)
(* is written; and a line with a non-empty token is written whatever skip  *)
(* is.                                                                     *)
(***************************************************************************)
C8_EmptyToken ==
    /\ (LineDone /\ buf # <<>> /\ is_ascii_whitespace(buf[1])) =>
           LineOut =
               IF config.skip THEN <<>>
               ELSE IF /\ config.authuser
                       /\ ~(config.optimize /\ ShortcutWindow(buf))
                       /\ AnchorFrom(buf, 0)
                    THEN config.host \o <<32, 45, 32, 45>>
                             \o SliceFrom(buf, LeftmostAnchor(buf, 0))
                    ELSE config.host \o buf
    /\ (LineDone /\ HasToken) => LineOut # <<>>

\* a line that starts with whitespace was written as Config.host and the line
C8_Witness ==
    /\ LineDone /\ ~config.skip /\ ~config.trim
    /\ Len(buf) > 1 /\ is_ascii_whitespace(buf[1])
    /\ LineOut = config.host \o buf

(***************************************************************************)
(* C9: with trim on, the buffer handed to the scanner is the line without  *)
(* its maximal prefix of whitespace bytes, for every line, the lines made  *)
(* of whitespace only included: it is empty or starts with a byte that is  *)
(* not whitespace.                                                         *)
(***************************************************************************)
C9_TrimEveryLine ==
    (pc = "scan" /\ config.trim) =>
        /\ buf = SliceFrom(raw, LeadingWhitespace(raw))
        /\ (buf = <<>> \/ ~is_ascii_whitespace(buf[1]))

\* both calls of the repeated application have returned
ReapplyDone == pc = "done" /\ pass = 2 /\ kind = "reapply"

(***************************************************************************)
(* C10: with the default replacement strings and thorough off, run_raw on  *)
(* the output of run_raw writes that output again.                         *)
(***************************************************************************)
C10_Idempotent == ReapplyDone => writer = first

\* the first call changed its input and the second call left its input as
\* it was
C10_Witness ==
    /\ ReapplyDone
    /\ first # input
    /\ first # <<>>
    /\ writer = first

\* the terminator of a line: "\r\n", "\n" or none
Terminator(s) ==
    IF Len(s) >= 2 /\ SubSeq(s, Len(s) - 1, Len(s)) = <<13, 10>> THEN <<13, 10>>
    ELSE IF Len(s) >= 1 /\ s[Len(s)] = 10 THEN <<10>>
    ELSE <<>>

(***************************************************************************)
(* C11: whatever trim, authuser, optimize and thorough are, the output     *)
(* written for a line ends with the terminator of the input line: "\n",    *)
(* "\r\n" or none; none is added, removed or changed.                      *)
(***************************************************************************)
C11_TerminatorKept ==
    (LineDone /\ LineOut # <<>>) => Terminator(LineOut) = Terminator(raw)

\* a line that ends with "\r\n" was trimmed, redacted and searched for its
\* token, and its output ends with "\r\n"
C11_Witness ==
    /\ LineDone
    /\ config.trim /\ config.authuser /\ config.thorough
    /\ Terminator(raw) = <<13, 10>>
    /\ HasToken /\ LeadingWhitespace(raw) > 0
    /\ AnchorFrom(L, TokenEnd(L))
    /\ Len(LineOut) < Len(raw)
    /\ Terminator(LineOut) = <<13, 10>>

\* the line is written and authuser finds no anchor at or after the end of
\* the token
NoAnchorCase ==
    /\ config.authuser
    /\ HasWhitespace(L)
    /\ (TokenEnd(L) > 0 \/ ~config.skip)
    /\ ~AnchorFrom(L, TokenEnd(L))

(***************************************************************************)
(* C20: with authuser on and no anchor at or after the end of the token,   *)
(* nothing is redacted: the output of the line is what authuser off and    *)
(* the same thorough setting write, the replacement followed by the        *)
(* remainder from the first whitespace byte, as it is or searched for the  *)
(* token by write_or_replace.                                              *)
(***************************************************************************)
C20_NoAnchorNoRedaction ==
    (LineDone /\ NoAnchorCase) =>
        LineOut = Expected
            \o write_or_replace(Remainder, TokenText, Expected,
                                config.thorough).bytes

\* a line without anchor was written with authuser and thorough on, an
\* occurrence of its token in the remainder replaced
C20_Witness ==
    /\ LineDone /\ NoAnchorCase /\ HasToken
    /\ config.thorough
    /\ Occurs(TokenText, Remainder)
    /\ LineOut # Expected \o Remainder
    /\ LineOut = Expected \o replace(Remainder, TokenText, Expected).bytes

\* the caller's calls on the parts of the input have all returned Ok
AloneDone(k) ==
    /\ pass = 2
    /\ kind = k
    /\ pc = "returned"
    /\ returned.tag = "Ok"
    /\ todo = <<>>

(***************************************************************************)
(* C12: for an input of lines L1..Lk and a fixed Config, the sink holds    *)
(* out(L1) .. out(Lk) in the order of the input, out(L) being what a call  *)
(* on L alone writes: no line's output depends on the lines around it.     *)
(***************************************************************************)
C12_LinesAlone == AloneDone("lines") => writer = first

\* an input of two lines, both written, gave the sink the two calls on one
\* line each gave
C12_Witness ==
    /\ AloneDone("lines")
    /\ Len(LineSeq(input)) = 2
    /\ config.authuser
    /\ writer = first
    /\ Len(first) > Len(input)

(***************************************************************************)
(* C13: once a read from a source, or a write or flush of the sink, has    *)
(* returned an error, no line is read, no byte is written, no input is     *)
(* opened, and run returns Err: the operation is not tried again and the   *)
(* line is not skipped.                                                    *)
(***************************************************************************)
C13_ErrorsFatal ==
    /\ [][site # "none" =>
              /\ writer' = writer
              /\ reader' = reader
              /\ arg' = arg
              /\ flushed' = flushed
              /\ site' = site]_vars
    /\ [](site # "none" => pc \in {"err", "returned"})
    /\ []((site # "none" /\ pc = "returned") => returned.tag = "Err")

\* a write failed with a line unread and an input unopened, and run
\* returned Err
C13_Witness ==
    /\ site = "write"
    /\ pc = "returned"
    /\ returned.tag = "Err"
    /\ reader # <<>>
    /\ arg < Len(inputs)
    /\ writer # <<>>

(***************************************************************************)
(* C14: run takes the inputs in the order they were pushed; an input is    *)
(* opened only when the one before it is read to its end and its output    *)
(* written; all write to the one sink, which holds the outputs of the      *)
(* inputs, each as a run on it alone writes it, in push order.             *)
(***************************************************************************)
C14_InputsInOrder ==
    /\ [](AloneDone("inputs") => writer = first)
    /\ [][(pc = "config" /\ inputs' # inputs) =>
              /\ Len(inputs') = Len(inputs) + 1
              /\ SubSeq(inputs', 1, Len(inputs)) = inputs]_vars
    /\ [][arg' > arg =>
              /\ arg' = arg + 1
              /\ reader = <<>>
              /\ pc \in {"config", "open", "done"}
              /\ inputs' = inputs
              /\ inputs[arg'].ok => (reader' = inputs[arg'].bytes /\ writer' = writer)]_vars

\* a run on "aa aaaa", which has no final terminator, and then on
\* "8.8.8.8 - f [1/x\n" wrote what the two runs on one input each wrote
C14_Witness ==
    /\ AloneDone("inputs")
    /\ inputs = <<[ok |-> TRUE, bytes |-> LineA]>>
    /\ writer = first
    /\ IsPrefix(config.host \o <<32, 97, 97, 97, 97>> \o config.ipv4, first)

(***************************************************************************)
(* C15: when the k-th input cannot be opened, run returns an error that    *)
(* names it; the output of the inputs 1..k-1 is in the sink, whole and     *)
(* flushed, as runs on them alone write it; no later input is opened.      *)
(***************************************************************************)
C15_UnopenableInput ==
    /\ (arg >= 1 /\ arg <= Len(inputs) /\ ~inputs[arg].ok) =>
           /\ pc = "returned"
           /\ returned = [tag |-> "Err", arg |-> arg]
           /\ \A j \in 1..(arg - 1) : inputs[j].ok
           /\ reader = <<>>
           /\ flushed = Len(writer)
    /\ (returned.tag = "Err" /\ site = "none") =>
           /\ returned.arg = arg
           /\ ~inputs[arg].ok
    /\ AloneDone("before") => writer = first

\* the second input did not open; the output of the first was in the sink
\* and the run on the first alone wrote the same
C15_Witness ==
    /\ AloneDone("before")
    /\ first # <<>>
    /\ writer = first
    /\ flushed = Len(writer)

\* the bytes written for the current line are a whole output line: a
\* replacement, " - -" or not, and the buffer from one of its whitespace
\* bytes to its end, as it is or with the token replaced
WholeLine(out) ==
    \E r \in {config.ipv4, config.ipv6, config.host},
       dash \in { <<>>, <<32, 45, 32, 45>> },
       p \in whitespace_offsets(buf) :
        \/ out = r \o dash \o SliceFrom(buf, p)
        \/ /\ config.thorough
           /\ replace(SliceFrom(buf, p), needle, r).ok
           /\ out = r \o dash \o replace(SliceFrom(buf, p), needle, r).bytes

(***************************************************************************)
(* C16: after a run that returned Ok the sink holds, for each line, its    *)
(* whole output or nothing; only a run that ended with an I/O error leaves *)
(* part of a line's output (the replacement without the rest) in the sink. *)
(***************************************************************************)
C16_NoPartialLine ==
    /\ (pass = 1 /\ raw # <<>> /\ (pc \in {"read", "done"} \/ returned.tag = "Ok")) =>
           (LineOut = <<>> \/ WholeLine(LineOut))
    /\ (pass = 1 /\ raw # <<>> /\ pc \in {"returned", "panic"}
            /\ LineOut # <<>> /\ ~WholeLine(LineOut)) =>
           (returned.tag = "Err" /\ site \in {"write", "flush"})

(***************************************************************************)
(* C17: with Config.flush set the sink is flushed after the output of each *)
(* line, before the next line is read; with or without it the sink is      *)
(* flushed at the end of each source, before replace_remote_address        *)
(* returns Ok: nothing written is unflushed when run returns Ok.           *)
(***************************************************************************)
C17_Flushed ==
    /\ (config.flush /\ pc = "read") => flushed = Len(writer)
    /\ (pc = "done" \/ (pc = "returned" /\ returned.tag = "Ok")) =>
           flushed = Len(writer)

\* with Config.flush set, a line was written and flushed and the next line
\* is still to be read
C17_Witness ==
    /\ config.flush
    /\ pc = "read"
    /\ reader # <<>>
    /\ LineOut # <<>>
    /\ flushed = Len(writer)

(***************************************************************************)
(* C18: for a non-empty pattern of length n, bad_char_table gives n to a   *)
(* byte that is not among the first n - 1 bytes of the pattern and         *)
(* n - 1 - k to a byte whose last occurrence among them is at offset k,    *)
(* every entry lies in 1..n; every iteration of the loop of bmsearch       *)
(* advances the window by at least 1; and every call of bmsearch returns.  *)
(***************************************************************************)
TableAsDescribed(pattern) ==
    LET n == Len(pattern)
        table == bad_char_table(pattern)
    IN  \A c \in 0..255 :
            LET occ == {k \in 0..(n - 2) : At(pattern, k) = c}
            IN  /\ table[c] \in 1..n
                /\ occ = {} => table[c] = n
                /\ \A k \in occ :
                       (\A j \in occ : j <= k) => table[c] = n - 1 - k

C18_TableAndProgress ==
    /\ [](bm.pattern # <<>> => TableAsDescribed(bm.pattern))
    /\ [][(bm.pc = "loop" /\ bm'.pc = "loop") => bm'.i >= bm.i + 1]_vars
    /\ <>(bm.pc = "done")

\* a call with a pattern that repeats a byte returned after the window was
\* advanced by less than the pattern length
C18_Witness ==
    /\ bm.pc = "done"
    /\ Len(bm.pattern) = 3
    /\ bm.pattern[1] = bm.pattern[2]
    /\ bad_char_table(bm.pattern)[bm.pattern[1]] = 1
    /\ Len(bm.indices) >= 2

(***************************************************************************)
(* C19: every offset p bmsearch returns has p + n <= m and                 *)
(* haystack[p..p+n] = pattern, the offsets are strictly increasing, the    *)
(* result is None exactly when no offset was recorded, and it is None when *)
(* the pattern is empty or longer than the haystack.                       *)
(***************************************************************************)
C19_SearchSound ==
    bm.pc = "done" =>
        LET m == Len(bm.self)
            n == Len(bm.pattern)
        IN  /\ \A k \in 1..Len(bm.indices) :
                   /\ bm.indices[k] + n <= m
                   /\ Slice(bm.self, bm.indices[k], bm.indices[k] + n) = bm.pattern
            /\ \A k \in 1..(Len(bm.indices) - 1) :
                   bm.indices[k] < bm.indices[k + 1]
            /\ bm.some <=> bm.indices # <<>>
            /\ (n = 0 \/ n > m) => ~bm.some
            /\ [some |-> bm.some, indices |-> bm.indices]
                   = bmsearch(bm.self, bm.pattern)

\* a call returned Some of two offsets
C19_Witness ==
    /\ bm.pc = "done"
    /\ bm.some
    /\ Len(bm.indices) = 2
    /\ Len(bm.pattern) = 2

\* the slice the branch taken for the rest of the line hands to
\* write_or_replace
rest_slice ==
    IF config.authuser /\ ~optimized_hit(config, buf, i) /\ RE_find_at(buf, i).some
    THEN SliceFrom(buf, RE_find_at(buf, i).start)
    ELSE SliceFrom(buf, i)

\* the slice is searched for the needle: thorough is on and the needle is
\* not empty
Searched == pc = "rest" /\ config.thorough /\ needle # <<>>

(***************************************************************************)
(* C21: run_raw never panics.  The slice buf[i+3..i+6] of the optimize     *)
(* check lies in the buffer; the offsets bmsearch returns lie in the slice *)
(* searched, each at least a pattern length after the one before, so that  *)
(* self[i..m] and self[i..] in replace have i <= m <= len; and no call     *)
(* ends in a panic.                                                        *)
(***************************************************************************)
C21_NoPanic ==
    /\ pc # "panic"
    /\ (pc = "rest" /\ config.authuser /\ optimized_hit(config, buf, i)) =>
           i + 6 <= Len(buf)
    /\ Searched =>
           LET found == bmsearch(rest_slice, needle).indices
               n == Len(needle)
           IN  /\ \A k \in 1..Len(found) : found[k] + n <= Len(rest_slice)
               /\ \A k \in 1..(Len(found) - 1) : found[k] + n <= found[k + 1]
               /\ replace(rest_slice, needle, repl).ok

====
